---------------------------- MODULE Spec2Model ----------------------------
(***************************************************************************)
(* K-Tube Dictation (src/app.py): a Streamlit script that is re-executed   *)
(* from top to bottom ("a pass") on every user interaction.  One step of   *)
(* the model is one pass of the script: the widget that triggered it, the  *)
(* session state it reads and writes, and what it puts on the screen.      *)
(*                                                                         *)
(* Text is modelled as a sequence of one-character strings, so that        *)
(* normalisation, splitting, joining and diffing are computed as the code  *)
(* computes them.                                                          *)
(***************************************************************************)
EXTENDS Integers, Sequences, FiniteSets, TLC

(***************************************************************************)
(* Bounds of the model (not program constants).                            *)
(***************************************************************************)
\* submits are accepted while the ledger holds fewer records than this
MaxHistory == 1
\* replay presses are accepted while the counter is below this
MaxReplay == 1
\* star presses are accepted while the vocabulary holds fewer entries
MaxVocab == 1
\* most words of a subtitle line drawn for the blank generator
MaxWords == 3
\* most words of a subtitle line, most tokens of a typed answer and most
\* characters of a free text drawn for the answer evaluator
MaxEvalWords == 2
MaxTyped == 3
MaxLen == 3

(***************************************************************************)
(* Characters and Python's str helpers.                                    *)
(***************************************************************************)
\* str.split() / str.strip() with no argument act on whitespace
Whitespace == {" ", "\t", "\n"}

\* the character class of the regular expression in normalize_text
Punct == {".", ",", "!", "?", ";", ":", "\"", "'", "-", "ELLIPSIS"}

SetMin(S) == CHOOSE x \in S : \A y \in S : x <= y

SetMax(S) == CHOOSE x \in S : \A y \in S : x >= y

\* min(2, len(candidate_words)) and friends
min(a, b) == IF a <= b THEN a ELSE b

max(a, b) == IF a >= b THEN a ELSE b

\* str.strip(): drop leading and trailing whitespace, keep inner whitespace
strip(s) ==
    LET keep == {i \in 1..Len(s) : s[i] \notin Whitespace}
    IN  IF keep = {} THEN <<>> ELSE SubSeq(s, SetMin(keep), SetMax(keep))

\* str.split(): maximal runs of non-whitespace characters, in order
RECURSIVE SplitFrom(_, _, _)
SplitFrom(s, i, cur) ==
    IF i > Len(s)
    THEN IF cur = <<>> THEN <<>> ELSE <<cur>>
    ELSE IF s[i] \in Whitespace
         THEN IF cur = <<>>
              THEN SplitFrom(s, i + 1, <<>>)
              ELSE <<cur>> \o SplitFrom(s, i + 1, <<>>)
         ELSE SplitFrom(s, i + 1, Append(cur, s[i]))

split(s) == SplitFrom(s, 1, <<>>)

\* sep.join(list)
RECURSIVE join(_, _)
join(sep, list) ==
    IF list = <<>> THEN <<>>
    ELSE IF Len(list) = 1 THEN list[1]
    ELSE list[1] \o sep \o join(sep, Tail(list))

\* list[:n]
Take(list, n) == SubSeq(list, 1, min(n, Len(list)))

\* "x in list"
InList(x, list) == \E i \in 1..Len(list) : list[i] = x

(***************************************************************************)
(* 4.1 Text normalizer.                                                    *)
(***************************************************************************)
\* re.sub(r'[.,!?;:"\'\-...]', '', text)
RemovePunct(text) == SelectSeq(text, LAMBDA c : c \notin Punct)

normalize_text_stripfirst(text) == RemovePunct(strip(text))

normalize_text(text) == strip(RemovePunct(text))

(***************************************************************************)
(* Tokenizer provider (kiwi.tokenize), an external library.  The model's   *)
(* morphology: whitespace separates, every other character is one morpheme *)
(* whose surface form is the character; ParticleChars are tagged as        *)
(* particles (J...), punctuation as symbols (S...), the rest as nouns.     *)
(***************************************************************************)
ParticleChars == {"c"}

MorphTag(c) ==
    IF c \in ParticleChars THEN <<"J", "X">>
    ELSE IF c \in Punct THEN <<"S", "F">>
    ELSE <<"N", "N", "G">>

kiwi_tokenize(word) ==
    LET chars == SelectSeq(word, LAMBDA c : c \notin Whitespace)
    IN  [i \in 1..Len(chars) |-> [form |-> <<chars[i]>>, tag |-> MorphTag(chars[i])]]

(***************************************************************************)
(* 4.2 Morphological differ.                                               *)
(***************************************************************************)
\* t.tag.startswith('J')
IsParticle(t) == Len(t.tag) >= 1 /\ t.tag[1] = "J"

analyze_wrong_morphemes(correct_word, user_word) ==
    LET correct_tokens == kiwi_tokenize(correct_word)
        user_tokens == IF user_word # <<>> THEN kiwi_tokenize(user_word) ELSE <<>>
        user_forms == {user_tokens[i].form : i \in 1..Len(user_tokens)}
        missing == SelectSeq(correct_tokens,
                             LAMBDA t : t.form \notin user_forms /\ ~IsParticle(t))
    IN  [i \in 1..Len(missing) |-> missing[i].form]

(***************************************************************************)
(* 4.3 Diff renderer: difflib.ndiff over the characters of the two texts.  *)
(* A diff is a sequence of <<tag, char>>, tag " " (equal), "-" (only in    *)
(* the user's text, rendered red/struck) or "+" (only in the expected      *)
(* text, rendered green/bold).                                             *)
(***************************************************************************)
\* length of the run of equal characters starting at a[i], b[j]
RECURSIVE RunLen(_, _, _, _, _, _)
RunLen(a, i, ahi, b, j, bhi) ==
    IF i > ahi \/ j > bhi THEN 0
    ELSE IF a[i] # b[j] THEN 0
    ELSE 1 + RunLen(a, i + 1, ahi, b, j + 1, bhi)

\* SequenceMatcher.find_longest_match: the longest block, of those the one
\* starting earliest in a, of those the one starting earliest in b
LongestMatch(a, alo, ahi, b, blo, bhi) ==
    LET blocks == {<<i, j, RunLen(a, i, ahi, b, j, bhi)>> :
                        i \in alo..ahi, j \in blo..bhi}
        k == SetMax({m[3] : m \in blocks})
        i0 == SetMin({m[1] : m \in {x \in blocks : x[3] = k}})
        j0 == SetMin({m[2] : m \in {x \in blocks : x[3] = k /\ x[1] = i0}})
    IN  <<i0, j0, k>>

Dump(tag, s, lo, hi) == [n \in 1..(hi - lo + 1) |-> <<tag, s[lo + n - 1]>>]

\* Differ._plain_replace: the shorter side is dumped first
PlainReplace(a, alo, ahi, b, blo, bhi) ==
    IF bhi - blo < ahi - alo
    THEN Dump("+", b, blo, bhi) \o Dump("-", a, alo, ahi)
    ELSE Dump("-", a, alo, ahi) \o Dump("+", b, blo, bhi)

\* get_matching_blocks / get_opcodes / Differ.compare on a[alo..ahi],
\* b[blo..bhi]: the longest block m, and the ranges on both sides of it
RECURSIVE NdiffRange(_, _, _, _, _, _)
NdiffAround(a, alo, ahi, b, blo, bhi, m) ==
    IF m[3] = 0
    THEN PlainReplace(a, alo, ahi, b, blo, bhi)
    ELSE NdiffRange(a, alo, m[1] - 1, b, blo, m[2] - 1)
         \o Dump(" ", a, m[1], m[1] + m[3] - 1)
         \o NdiffRange(a, m[1] + m[3], ahi, b, m[2] + m[3], bhi)

NdiffRange(a, alo, ahi, b, blo, bhi) ==
    IF alo > ahi /\ blo > bhi THEN <<>>
    ELSE IF alo > ahi THEN Dump("+", b, blo, bhi)
    ELSE IF blo > bhi THEN Dump("-", a, alo, ahi)
    ELSE NdiffAround(a, alo, ahi, b, blo, bhi,
                     LongestMatch(a, alo, ahi, b, blo, bhi))

ndiff(a, b) == NdiffRange(a, 1, Len(a), b, 1, Len(b))

\* diff = difflib.ndiff(user_input, correct); one markup element per line
generate_diff_html(correct, user_input) == ndiff(user_input, correct)

(***************************************************************************)
(* 4.4 Blank generator (the easy-mode branch of the answer form).          *)
(***************************************************************************)
\* the placeholder "____"
Placeholder == <<"_", "_", "_", "_">>

\* a word is a candidate when len(w) >= MinBlankLen
MinBlankLen == 2

\* num_blanks = min(MaxBlanks, len(candidate_words))
MaxBlanks == 2

\* dictionary lookup and the stored list read wrong_words_list[:WrongWordCap]
WrongWordCap == 3

\* get_word_definitions(..., max_results=3): items[:max_results]
MaxResults == 3

IsCandidate(w) == Len(w) >= MinBlankLen

candidate_words(words) == SelectSeq(words, IsCandidate)

num_blanks(words) == min(MaxBlanks, Len(candidate_words(words)))

\* random.sample(candidate_words, num_blanks) draws num_blanks positions of
\* the candidate list without replacement; a draw is the set of positions
Samples(words) ==
    {P \in SUBSET (1..Len(candidate_words(words))) : Cardinality(P) = num_blanks(words)}

\* the words at the drawn positions; the code only asks "w in blank_words"
blank_words(words, P) == {candidate_words(words)[p] : p \in P}

\* if w in blank_words and w not in actual_blanks
Masks(w, drawn, actual_blanks) == w \in drawn /\ ~InList(w, actual_blanks)

\* the loop over words
RECURSIVE MaskFrom(_, _, _, _, _)
MaskFrom(words, drawn, i, masked_words, actual_blanks) ==
    IF i > Len(words)
    THEN [masked_words |-> masked_words, actual_blanks |-> actual_blanks]
    ELSE IF Masks(words[i], drawn, actual_blanks)
         THEN MaskFrom(words, drawn, i + 1,
                       Append(masked_words, Placeholder),
                       Append(actual_blanks, words[i]))
         ELSE MaskFrom(words, drawn, i + 1,
                       Append(masked_words, words[i]), actual_blanks)

GenerateBlanks_drawn(original_text, P) ==
    LET words == split(original_text)
        cw == candidate_words(words)
        m == MaskFrom(words, blank_words(words, P), 1, <<>>, <<>>)
        at == SelectSeq([i \in 1..Len(cw) |-> i], LAMBDA i : i \in P)
    IN  [answers |-> [k \in 1..Len(at) |-> cw[at[k]]],
         masked_text |-> join(<<" ">>, m.masked_words)]

\* the values stored in current_blank_answers and current_masked_text
GenerateBlanks(original_text, P) ==
    LET words == split(original_text)
        m == MaskFrom(words, blank_words(words, P), 1, <<>>, <<>>)
    IN  [answers |-> m.actual_blanks,
         masked_text |-> join(<<" ">>, m.masked_words)]

(***************************************************************************)
(* 4.5 Answer evaluator.  A markup is a sequence of elements: <<tag, c>>   *)
(* from the diff renderer, <<" ", " ">> for a literal space, and           *)
(* <<"gray", word>> for a slot rendered unchanged.                         *)
(***************************************************************************)
\* user_words = [normalize_text(w) for w in user_input.strip().split()]
user_words(user_input) ==
    LET ws == split(strip(user_input))
    IN  [i \in 1..Len(ws) |-> normalize_text(ws[i])]

\* normalized_answers = [normalize_text(w) for w in blank_answers]
normalized_answers(blank_answers) ==
    [i \in 1..Len(blank_answers) |-> normalize_text(blank_answers[i])]

\* zip(normalized_answers, user_words + [''] * len(normalized_answers))
ZipSlots(answers, uwords) ==
    LET padded == uwords \o [i \in 1..Len(answers) |-> <<>>]
    IN  [i \in 1..min(Len(answers), Len(padded)) |->
            [correct |-> answers[i], user |-> padded[i]]]

EasyVerdict_zip(uwords, answers) ==
    \A i \in 1..min(Len(uwords), Len(answers)) : uwords[i] = answers[i]

\* if user_words == normalized_answers
EasyVerdict(uwords, answers) == uwords = answers

\* missing if missing else [correct]
SlotWrongWords(correct, user) ==
    LET missing == analyze_wrong_morphemes(correct, user)
    IN  IF missing # <<>> THEN missing ELSE <<correct>>

\* the loop over the zipped slots of an answer judged incorrect
RECURSIVE EasySlots(_, _, _, _)
EasySlots(slots, i, diff_html, wrong_words_list) ==
    IF i > Len(slots)
    THEN [is_correct |-> FALSE, diff_html |-> diff_html,
          wrong_words_list |-> wrong_words_list]
    ELSE IF slots[i].correct # slots[i].user
         THEN EasySlots(slots, i + 1,
                        diff_html
                          \o generate_diff_html(slots[i].correct, slots[i].user)
                          \o << <<" ", " ">> >>,
                        wrong_words_list
                          \o SlotWrongWords(slots[i].correct, slots[i].user))
         ELSE EasySlots(slots, i + 1,
                        diff_html \o << <<"gray", slots[i].correct>>, <<" ", " ">> >>,
                        wrong_words_list)

\* for word in wrong_words_list[:3]: if word in displayed: continue
RECURSIVE Dedup(_)
Dedup(list) ==
    IF list = <<>> THEN <<>>
    ELSE LET rest == Dedup(SubSeq(list, 1, Len(list) - 1))
             x == list[Len(list)]
         IN  IF InList(x, rest) THEN rest ELSE Append(rest, x)

\* the words the dictionary is asked for
LookupWords(wrong_words_list) == Dedup(Take(wrong_words_list, WrongWordCap))

\* the easy branch on the two normalized lists
EasyResult(uw, na) ==
    IF EasyVerdict(uw, na)
    THEN [is_correct |-> TRUE, diff_html |-> <<>>, wrong_words_list |-> <<>>]
    ELSE EasySlots(ZipSlots(na, uw), 1, <<>>, <<>>)

\* the easy branch: verdict, markup, wrong words
EvaluateEasy(user_input, blank_answers) ==
    EasyResult(user_words(user_input), normalized_answers(blank_answers))

HardVerdict_raw(user_input, original_text) == user_input = original_text

\* normalize_text(user_input) == normalize_text(original_text)
HardVerdict(user_input, original_text) ==
    normalize_text(user_input) = normalize_text(original_text)

\* the hard branch
EvaluateHard(user_input, original_text) ==
    IF HardVerdict(user_input, original_text)
    THEN [is_correct |-> TRUE, diff_html |-> <<>>, wrong_words_list |-> <<>>]
    ELSE [is_correct |-> FALSE,
          diff_html |-> generate_diff_html(original_text, user_input),
          wrong_words_list |-> <<>>]

(***************************************************************************)
(* The external collaborators and the data they return in the model.       *)
(***************************************************************************)
None == "None"

W_aa == <<"a", "a">>

W_bb == <<"b", "b">>

W_bc == <<"b", "c">>

SP == <<" ">>

\* the two subtitle lines of the video that has a Korean track
Text1 == W_aa \o SP \o W_bb \o SP \o W_bc

Text2 == <<"b">> \o SP \o W_aa \o <<".">>

Video1 == [id |-> "v1", title |-> "t1"]

Video2 == [id |-> "v2", title |-> "t2"]

\* selected_video = NoVideo
NoVideo == [id |-> None, title |-> None]

\* what the video search provider returns for the query
SearchHits == <<Video1, Video2>>

\* the Korean track of a video, as {text, start, duration}; Video2 has none
KoreanTrack(video_id) ==
    IF video_id = "v1"
    THEN << [text |-> Text1, start |-> 0, duration |-> 2],
            [text |-> Text2, start |-> 65, duration |-> 3] >>
    ELSE <<>>

\* what the subtitle provider can do for a video: return its Korean track
\* ("ok"), find no Korean track ("no_ko"), or fail otherwise ("error")
Fetched(track) == [kind |-> "ok", track |-> track]

NoKorean == [kind |-> "no_ko", track |-> <<>>]

FetchError == [kind |-> "error", track |-> <<>>]

TranscriptOutcomes(video_id) ==
    IF KoreanTrack(video_id) # <<>>
    THEN {Fetched(KoreanTrack(video_id)), FetchError}
    ELSE {NoKorean, FetchError}

\* get_transcript: the fetched items, or None on any exception (None is
\* modelled as the empty list, which the caller's "if transcript:" treats alike)
get_transcript(video_id, outcome) ==
    IF outcome.kind = "ok" THEN outcome.track ELSE <<>>

\* random.shuffle(transcript): any reordering
Shuffles(transcript) == Permutations(1..Len(transcript))

Shuffled(transcript, perm) == [i \in 1..Len(transcript) |-> transcript[perm[i]]]

\* the headwords the dictionary provider knows; in each pass it answers for
\* a subset of them (the others: no match, time-out, error)
DictHeadwords == {<<"b">>}

Langs == {"en", "ko"}

\* pd.Timestamp.now().strftime("%Y-%m-%d"): the clock is outside the model
Today == "today"

\* search_word = tokens[0].form if tokens else word; the request; items[:max_results]
get_word_definitions(word, lang_code, answering) ==
    LET tokens == kiwi_tokenize(word)
        search_word == IF tokens # <<>> THEN tokens[1].form ELSE word
        items == IF search_word \in answering
                 THEN << [word |-> search_word,
                          definition |-> <<"=">> \o search_word,
                          translation |-> IF lang_code # "ko" THEN <<"~">> ELSE <<>>,
                          trans_definition |->
                              IF lang_code # "ko" THEN <<"~">> \o search_word ELSE <<>>] >>
                 ELSE <<>>
    IN  Take(items, MaxResults)

(***************************************************************************)
(* State.                                                                  *)
(***************************************************************************)
VARIABLES
    session_state,  \* st.session_state: the keys of `defaults` and current_index
    difficulty,     \* the sidebar radio: "easy" or "hard"
    shuffle_order,  \* the sidebar checkbox
    screen,         \* what the last completed pass rendered
    rerun_pending,  \* the last pass ended in st.rerun()
    trigger,        \* the widget whose interaction started the last pass
    checked_verdict,\* per index, the verdict shown by its last submit pass
    dictionary      \* the headwords the dictionary service answers for

vars == <<session_state, difficulty, shuffle_order, screen, rerun_pending,
          trigger, checked_verdict, dictionary>>

\* check_states is a dict from index to {'checked', 'user_input'}
NoChecks == [i \in {} |-> [checked |-> TRUE, user_input |-> <<>>]]

\* the `defaults` dict; current_index is read with .get('current_index', 0)
SessionDefaults ==
    [history |-> <<>>, vocabulary |-> <<>>, selected_video |-> NoVideo,
     transcript_data |-> <<>>, search_results |-> <<>>,
     should_autoplay |-> FALSE, replay_count |-> 0,
     current_blank_answers |-> <<>>, current_masked_text |-> <<>>,
     blank_generation_idx |-> -1, ui_lang |-> "en",
     check_states |-> NoChecks, current_index |-> 0]

\* a page with nothing on it but the sidebar and the search form; `fetched`
\* is not on the page: it notes how the subtitle provider answered the pass
BlankScreen ==
    [view |-> "home", error |-> "none", fetched |-> "none",
     back |-> FALSE, nav |-> FALSE,
     restart |-> FALSE, answer_form |-> FALSE, dict_form |-> FALSE,
     clear |-> FALSE, idx |-> -1, autoplay |-> FALSE, cache_bust |-> 0,
     mode |-> "-", masked_text |-> <<>>, blank_answers |-> <<>>,
     generated |-> FALSE, submitted |-> FALSE,
     verdict |-> "none", diff_html |-> <<>>, wrong_words |-> <<>>,
     looked_up |-> <<>>, stars |-> <<>>, dict_warning |-> FALSE]

\* one execution of the script: the session state it has reached, the page
\* it has rendered, and whether it is still running ("run"), has called
\* st.rerun() ("rerun") or was stopped by an exception ("stop")
StartRun(ss) == [ss |-> ss, out |-> BlankScreen, halt |-> "run"]

Running(r) == r.halt = "run"

NoTrigger == [kind |-> "none", arg |-> None]

NoVerdicts == [i \in {} |-> "none"]

(***************************************************************************)
(* The script, section by section.  Each section maps the run so far to    *)
(* the run after it; `trig` is the widget interaction that started the     *)
(* pass, `w` the values of the sidebar widgets, `env` what the random      *)
(* generator and the external services answer in this pass.                *)
(***************************************************************************)
\* sidebar: the language selectbox
Sidebar(r, w) ==
    IF w.selected_lang # r.ss.ui_lang
    THEN [r EXCEPT !.ss.ui_lang = w.selected_lang, !.halt = "rerun"]
    ELSE r

\* if search_btn and search_query: ... (the API key is configured)
SearchSection(r, trig, env) ==
    IF trig.kind # "search" THEN r
    ELSE LET cleared == [r EXCEPT !.ss.selected_video = NoVideo,
                                  !.ss.transcript_data = <<>>]
         IN  CASE env.search = "results" ->
                    [cleared EXCEPT !.ss.search_results = SearchHits]
               [] env.search = "empty" ->
                    [cleared EXCEPT !.ss.search_results = <<>>]
               [] OTHER ->
                    [cleared EXCEPT !.out.error = "search_failed"]

\* the key of a star button: f"add_vocab_{defn['word']}_{i}"
StarKey(defn, i) == <<defn.word, i>>

\* display_dictionary_results(definitions, show_add_button=True, context):
\* a second st.button with a key already used in this pass raises Streamlit's
\* duplicate-key exception, which ends the pass
RECURSIVE display_dictionary_results(_, _, _, _, _)
display_dictionary_results(r, definitions, i, context, trig) ==
    IF i > Len(definitions) \/ ~Running(r) THEN r
    ELSE LET defn == definitions[i]
             key == StarKey(defn, i)
             vocab_entry == [word |-> defn.word, definition |-> defn.definition,
                             translation |-> defn.trans_definition,
                             context |-> context, date |-> Today]
             pressed == trig.kind = "star" /\ trig.arg = key
         IN  IF \E n \in 1..Len(r.out.stars) : r.out.stars[n].key = key
             THEN [r EXCEPT !.halt = "stop", !.out.error = "duplicate_key"]
             ELSE display_dictionary_results(
                      [r EXCEPT !.out.stars = Append(@, [key |-> key, entry |-> vocab_entry]),
                                !.ss.vocabulary = IF pressed THEN Append(@, vocab_entry) ELSE @],
                      definitions, i + 1, context, trig)

\* for word in wrong_words_list[:3]: ... get_word_definitions ... display
RECURSIVE LookupFrom(_, _, _, _, _, _)
LookupFrom(r, words, i, context, trig, env) ==
    IF i > Len(words) \/ ~Running(r) THEN r
    ELSE LET definitions == get_word_definitions(words[i], r.ss.ui_lang, env.dict)
             looked == [r EXCEPT !.out.looked_up = Append(@, words[i])]
         IN  LookupFrom(IF definitions # <<>>
                        THEN display_dictionary_results(looked, definitions, 1, context, trig)
                        ELSE looked,
                        words, i + 1, context, trig, env)

\* ", ".join(list) if list else "-"
JoinOrDash(list) == IF list # <<>> THEN join(<<",", " ">>, list) ELSE <<"-">>

\* the record's wrong words: wrong_words_list[:3]
StoredWrongWords(wrong_words_list) == Take(wrong_words_list, WrongWordCap)

\* the dict appended to history
AttemptRecord(vid, curr_item, user_input, blank_answers, ev) ==
    [date |-> Today,
     video_title |-> vid.title,
     timestamp |-> <<curr_item.start \div 60, curr_item.start % 60>>,
     original_text |-> curr_item.text,
     user_input |-> user_input,
     is_correct |-> IF ev.is_correct THEN "V" ELSE "X",
     blank_words |-> JoinOrDash(blank_answers),
     wrong_words |-> JoinOrDash(StoredWrongWords(ev.wrong_words_list)),
     diff_html |-> IF ~ev.is_correct THEN ev.diff_html ELSE <<>>]

\* if submit_btn: ... history.append(record)
ShouldRecord(submit_btn, checked) == submit_btn

NeedsBlanks_never(generation_idx, current_idx) == generation_idx = -1

\* if st.session_state.blank_generation_idx != current_idx
NeedsBlanks(generation_idx, current_idx) == generation_idx # current_idx

\* the blanks are stored under the index they were generated for
StoreBlanks(r, current_idx, g) ==
    [r EXCEPT !.ss.current_blank_answers = g.answers,
              !.ss.current_masked_text = g.masked_text,
              !.ss.blank_generation_idx = current_idx,
              !.out.generated = TRUE]

\* blank_answers = current_blank_answers; masked_text = current_masked_text
ShowBlanks(r) ==
    [r EXCEPT !.out.mode = "easy",
              !.out.blank_answers = r.ss.current_blank_answers,
              !.out.masked_text = r.ss.current_masked_text]

\* the answer form: the blanks of easy mode
BlankSection(r, w, current_idx, original_text, env) ==
    IF w.difficulty # "easy" THEN [r EXCEPT !.out.mode = "hard"]
    ELSE IF NeedsBlanks(r.ss.blank_generation_idx, current_idx)
    THEN ShowBlanks(StoreBlanks(r, current_idx,
                                GenerateBlanks(original_text, env.sample)))
    ELSE ShowBlanks(r)

\* if submit_btn: check_states[current_idx] = {'checked': True, 'user_input': ...}
StoreCheck(r, trig, current_idx) ==
    IF trig.kind = "submit"
    THEN [r EXCEPT !.ss.check_states =
                       (current_idx :> [checked |-> TRUE, user_input |-> trig.arg]) @@ @,
                   !.out.submitted = TRUE]
    ELSE r

\* current_state.get('checked')
IsChecked(r, current_idx) ==
    /\ current_idx \in DOMAIN r.ss.check_states
    /\ r.ss.check_states[current_idx].checked

\* if not submit_btn: user_input = current_state['user_input']
CheckedInput(r, trig, current_idx) ==
    IF trig.kind # "submit"
    THEN r.ss.check_states[current_idx].user_input
    ELSE trig.arg

\* blank_answers is [] unless the form rendered in easy mode
FormBlanks(r, w) ==
    IF w.difficulty = "easy" THEN r.ss.current_blank_answers ELSE <<>>

\* if difficulty == t("easy"): ... else: ...
Evaluate(w, user_input, blank_answers, original_text) ==
    IF w.difficulty = "easy"
    THEN EvaluateEasy(user_input, blank_answers)
    ELSE EvaluateHard(user_input, original_text)

\* st.success(correct) / st.error(incorrect) and the comparison
ShowVerdict(r, ev) ==
    [r EXCEPT !.out.verdict = IF ev.is_correct THEN "correct" ELSE "incorrect",
              !.out.diff_html = ev.diff_html,
              !.out.wrong_words = ev.wrong_words_list]

\* if wrong_words_list: the dictionary lookups of the easy branch
ShowLookups(r, w, trig, env, ev, original_text) ==
    IF w.difficulty = "easy" /\ ~ev.is_correct /\ ev.wrong_words_list # <<>>
    THEN LookupFrom(r, LookupWords(ev.wrong_words_list), 1, original_text, trig, env)
    ELSE r

\* if submit_btn: record = {...}; history.append(record)
RecordAttempt(r, trig, current_idx, curr_item, user_input, blank_answers, ev) ==
    IF Running(r) /\ ShouldRecord(trig.kind = "submit", IsChecked(r, current_idx))
    THEN [r EXCEPT !.ss.history =
             Append(@, AttemptRecord(r.ss.selected_video, curr_item,
                                     user_input, blank_answers, ev))]
    ELSE r

\* the evaluation `ev` of a checked segment: verdict, lookups, record
CheckWith(r, w, trig, env, current_idx, curr_item, user_input, blank_answers, ev) ==
    RecordAttempt(ShowLookups(ShowVerdict(r, ev), w, trig, env, ev, curr_item.text),
                  trig, current_idx, curr_item, user_input, blank_answers, ev)

\* if current_state.get('checked'), with the input and the blanks it reads
CheckInput(r, w, trig, env, current_idx, curr_item, user_input, blank_answers) ==
    CheckWith(r, w, trig, env, current_idx, curr_item, user_input, blank_answers,
              Evaluate(w, user_input, blank_answers, curr_item.text))

CheckStored(r, w, trig, env, current_idx, curr_item) ==
    IF ~IsChecked(r, current_idx) THEN r
    ELSE CheckInput(r, w, trig, env, current_idx, curr_item,
                    CheckedInput(r, trig, current_idx), FormBlanks(r, w))

\* "State Persistence Logic" to the history append
CheckSection(r, w, trig, env, current_idx, curr_item) ==
    CheckStored(StoreCheck(r, trig, current_idx), w, trig, env, current_idx, curr_item)

\* the dictionary results of the manual search
ShowDefinitions(r, definitions, trig, original_text) ==
    IF definitions # <<>>
    THEN display_dictionary_results(r, definitions, 1, original_text, trig)
    ELSE [r EXCEPT !.out.dict_warning = TRUE]

\* the manual dictionary search form; a pass that an exception stopped does
\* not come here
DictSection(r, trig, env, original_text) ==
    IF ~Running(r) THEN r
    ELSE IF trig.kind = "dict" /\ trig.arg # <<>>
    THEN ShowDefinitions([r EXCEPT !.out.dict_form = TRUE],
                         get_word_definitions(trig.arg, r.ss.ui_lang, env.dict),
                         trig, original_text)
    ELSE [r EXCEPT !.out.dict_form = TRUE]

MovedTo_counting(r, idx) ==
    [r EXCEPT !.ss.current_index = idx, !.ss.should_autoplay = TRUE,
              !.ss.replay_count = @ + 1, !.halt = "rerun"]

\* the body of the prev and of the next button: current_index -= 1 or += 1,
\* should_autoplay = True, st.rerun()
MovedTo(r, idx) ==
    [r EXCEPT !.ss.current_index = idx, !.ss.should_autoplay = TRUE,
              !.halt = "rerun"]

\* the body of the play / replay button
Replayed(r) ==
    [r EXCEPT !.ss.should_autoplay = TRUE, !.ss.replay_count = @ + 1,
              !.halt = "rerun"]

\* the player: autoplay parameter and cache_bust, then should_autoplay = False
Player(r, current_idx) ==
    [r EXCEPT !.out.view = "study", !.out.idx = current_idx,
              !.out.autoplay = r.ss.should_autoplay,
              !.out.cache_bust = r.ss.replay_count,
              !.out.nav = TRUE,
              !.ss.should_autoplay = FALSE]

\* below the buttons: answer form, checks, dictionary
SegmentBody(r, w, trig, env, current_idx, curr_item) ==
    DictSection(CheckSection(BlankSection([r EXCEPT !.out.answer_form = TRUE],
                                          w, current_idx, curr_item.text, env),
                             w, trig, env, current_idx, curr_item),
                trig, env, curr_item.text)

\* prev / replay / next, each ending the pass if it acts
Buttons(r, w, trig, env, current_idx) ==
    IF trig.kind = "prev" /\ current_idx > 0
    THEN MovedTo(r, r.ss.current_index - 1)
    ELSE IF trig.kind = "replay"
    THEN Replayed(r)
    ELSE IF trig.kind = "next" /\ current_idx < Len(r.ss.transcript_data) - 1
    THEN MovedTo(r, r.ss.current_index + 1)
    ELSE SegmentBody(r, w, trig, env, current_idx,
                     r.ss.transcript_data[current_idx + 1])

\* the segment page: player, prev / replay / next, answer form, checks, dictionary
SegmentPage(r, w, trig, env, current_idx) ==
    Buttons(Player(r, current_idx), w, trig, env, current_idx)

\* if current_idx < 0: current_idx = 0
Clamped(r) ==
    IF r.ss.current_index < 0 THEN [r EXCEPT !.ss.current_index = 0] ELSE r

\* completed page with the restart button, or the segment page
IndexPage(r, w, trig, env) ==
    IF r.ss.current_index >= Len(r.ss.transcript_data)
    THEN IF trig.kind = "restart"
         THEN [r EXCEPT !.ss.current_index = 0, !.halt = "rerun"]
         ELSE [r EXCEPT !.out.view = "completed", !.out.restart = TRUE]
    ELSE SegmentPage(r, w, trig, env, r.ss.current_index)

\* the page of a selected video
StudyView(r, w, trig, env) == IndexPage(Clamped(r), w, trig, env)

\* transcript = get_transcript(...); if shuffle_order: random.shuffle(transcript)
Fetch(w, trig, env) ==
    IF w.shuffle_order /\ get_transcript(trig.arg.id, env.transcript) # <<>>
    THEN Shuffled(get_transcript(trig.arg.id, env.transcript), env.perm)
    ELSE get_transcript(trig.arg.id, env.transcript)

\* if transcript: ... st.rerun() else: st.error(no_korean_subtitles)
Select(r, video, transcript) ==
    IF transcript # <<>>
    THEN [r EXCEPT !.ss.selected_video = video,
                   !.ss.transcript_data = transcript,
                   !.ss.current_index = 0,
                   !.ss.should_autoplay = FALSE,
                   !.out.view = "list",
                   !.halt = "rerun"]
    ELSE [r EXCEPT !.out.view = "list", !.out.error = "no_korean_subtitles"]

\* the list of search results with one "study this" button per video
ListView(r, w, trig, env) ==
    IF trig.kind = "study"
       /\ \E n \in 1..Len(r.ss.search_results) : r.ss.search_results[n] = trig.arg
    THEN Select([r EXCEPT !.out.fetched = env.transcript.kind],
                trig.arg, Fetch(w, trig, env))
    ELSE [r EXCEPT !.out.view = "list"]

\* if st.session_state.search_results: back button, then list or study page
ResultsSection(r, w, trig, env) ==
    IF ~Running(r) \/ r.ss.search_results = <<>> THEN r
    ELSE IF r.ss.selected_video # NoVideo /\ trig.kind = "back"
    THEN [r EXCEPT !.ss.selected_video = NoVideo, !.ss.transcript_data = <<>>,
                   !.halt = "rerun"]
    ELSE IF r.ss.selected_video = NoVideo
    THEN ListView(r, w, trig, env)
    ELSE StudyView([r EXCEPT !.out.back = TRUE], w, trig, env)

\* the vocabulary tab: the clear button shows while the list is not empty
VocabularyTab(r, trig) ==
    IF ~Running(r) \/ r.ss.vocabulary = <<>> THEN r
    ELSE IF trig.kind = "clear"
    THEN [r EXCEPT !.ss.vocabulary = <<>>, !.halt = "rerun"]
    ELSE [r EXCEPT !.out.clear = TRUE]

\* one pass of the script, top to bottom; a section is skipped once the
\* pass has ended
Script(ss, w, trig, env) ==
    VocabularyTab(
        ResultsSection(
            SearchSection(Sidebar(StartRun(ss), w), trig, env),
            w, trig, env),
        trig)

(***************************************************************************)
(* The passes.                                                             *)
(***************************************************************************)
\* the texts a user types into the answer form
TypedInputs == {W_aa \o SP \o W_bb}

\* the words a user types into the dictionary form
DictQueries == {W_bb}

SearchOutcomes == {"results", "empty", "failed"}

Widgets(lang, diff, shuf) ==
    [selected_lang |-> lang, difficulty |-> diff, shuffle_order |-> shuf]

\* the segment a pass would put on the page, if any
OnSegment ==
    /\ session_state.search_results # <<>>
    /\ session_state.selected_video # NoVideo
    /\ session_state.current_index >= 0
    /\ session_state.current_index < Len(session_state.transcript_data)

\* the draws random.sample can make in a pass with difficulty `diff`
SampleChoices(diff) ==
    IF OnSegment /\ diff = "easy"
       /\ NeedsBlanks(session_state.blank_generation_idx, session_state.current_index)
    THEN Samples(split(session_state.transcript_data[session_state.current_index + 1].text))
    ELSE {{}}

Env(sample, dict, search, transcript, perm) ==
    [sample |-> sample, dict |-> dict, search |-> search,
     transcript |-> transcript, perm |-> perm]

\* the state after the pass `r`
Finish(r, trig, diff, shuf) ==
    /\ session_state' = r.ss
    /\ screen' = IF r.halt = "rerun" THEN screen ELSE r.out
    /\ rerun_pending' = (r.halt = "rerun")
    /\ trigger' = trig.kind
    /\ difficulty' = diff
    /\ shuffle_order' = shuf
    /\ checked_verdict' = IF trig.kind = "submit" /\ r.out.verdict # "none"
                          THEN (r.out.idx :> r.out.verdict) @@ checked_verdict
                          ELSE checked_verdict
    /\ UNCHANGED dictionary

\* a pass that performs no search and fetches no subtitles
Pass(trig, lang, diff, shuf) ==
    \E sample \in SampleChoices(diff) :
        Finish(Script(session_state, Widgets(lang, diff, shuf), trig,
                      Env(sample, dictionary, "failed", FetchError, <<>>)),
               trig, diff, shuf)

\* the pass st.rerun() starts
Rerun ==
    /\ rerun_pending
    /\ Pass(NoTrigger, session_state.ui_lang, difficulty, shuffle_order)

ChangeLanguage ==
    /\ ~rerun_pending
    /\ \E lang \in Langs \ {session_state.ui_lang} :
           Pass([kind |-> "lang", arg |-> lang], lang, difficulty, shuffle_order)

ToggleDifficulty ==
    /\ ~rerun_pending
    /\ Pass([kind |-> "difficulty", arg |-> None], session_state.ui_lang,
            IF difficulty = "easy" THEN "hard" ELSE "easy", shuffle_order)

ToggleShuffle ==
    /\ ~rerun_pending
    /\ Pass([kind |-> "shuffle", arg |-> None], session_state.ui_lang,
            difficulty, ~shuffle_order)

Search ==
    /\ ~rerun_pending
    /\ \E outcome \in SearchOutcomes :
           LET trig == [kind |-> "search", arg |-> None]
           IN  Finish(Script(session_state,
                             Widgets(session_state.ui_lang, difficulty, shuffle_order),
                             trig, Env({}, {}, outcome, FetchError, <<>>)),
                      trig, difficulty, shuffle_order)

BackToResults ==
    /\ ~rerun_pending
    /\ screen.back
    /\ Pass([kind |-> "back", arg |-> None], session_state.ui_lang,
            difficulty, shuffle_order)

StudyThis ==
    /\ ~rerun_pending
    /\ screen.view = "list"
    /\ \E n \in 1..Len(session_state.search_results) :
         LET vid == session_state.search_results[n]
             trig == [kind |-> "study", arg |-> vid]
         IN  \E outcome \in TranscriptOutcomes(vid.id) :
             \E perm \in (IF shuffle_order
                          THEN Shuffles(get_transcript(vid.id, outcome))
                          ELSE {<<>>}) :
                 Finish(Script(session_state,
                               Widgets(session_state.ui_lang, difficulty, shuffle_order),
                               trig, Env({}, {}, "failed", outcome, perm)),
                        trig, difficulty, shuffle_order)

PressPrev ==
    /\ ~rerun_pending
    /\ screen.nav
    /\ Pass([kind |-> "prev", arg |-> None], session_state.ui_lang,
            difficulty, shuffle_order)

PressReplay ==
    /\ ~rerun_pending
    /\ screen.nav
    /\ session_state.replay_count < MaxReplay
    /\ Pass([kind |-> "replay", arg |-> None], session_state.ui_lang,
            difficulty, shuffle_order)

PressNext ==
    /\ ~rerun_pending
    /\ screen.nav
    /\ Pass([kind |-> "next", arg |-> None], session_state.ui_lang,
            difficulty, shuffle_order)

\* the button of the "completed" page
Restart ==
    /\ ~rerun_pending
    /\ screen.restart
    /\ Pass([kind |-> "restart", arg |-> None], session_state.ui_lang,
            difficulty, shuffle_order)

SubmitFrom(inputs) ==
    /\ ~rerun_pending
    /\ screen.answer_form
    /\ Len(session_state.history) < MaxHistory
    /\ \E typed \in inputs :
           Pass([kind |-> "submit", arg |-> typed], session_state.ui_lang,
                difficulty, shuffle_order)

SubmitAnswer == SubmitFrom(TypedInputs)

DictSearch ==
    /\ ~rerun_pending
    /\ screen.dict_form
    /\ \E query \in DictQueries :
           Pass([kind |-> "dict", arg |-> query], session_state.ui_lang,
                difficulty, shuffle_order)

PressStar ==
    /\ ~rerun_pending
    /\ Len(session_state.vocabulary) < MaxVocab
    /\ \E n \in 1..Len(screen.stars) :
           Pass([kind |-> "star", arg |-> screen.stars[n].key], session_state.ui_lang,
                difficulty, shuffle_order)

ClearVocabulary ==
    /\ ~rerun_pending
    /\ screen.clear
    /\ Pass([kind |-> "clear", arg |-> None], session_state.ui_lang,
            difficulty, shuffle_order)

Init ==
    /\ session_state = SessionDefaults
    /\ difficulty = "easy"
    /\ shuffle_order = FALSE
    /\ screen = BlankScreen
    /\ rerun_pending = FALSE
    /\ trigger = "none"
    /\ checked_verdict = NoVerdicts
    /\ dictionary \in SUBSET DictHeadwords

\* the session of a user who leaves the shuffle checkbox alone; NextAll
\* below adds the checkbox
Next ==
    \/ Rerun
    \/ ChangeLanguage
    \/ ToggleDifficulty
    \/ Search
    \/ BackToResults
    \/ StudyThis
    \/ PressPrev
    \/ PressReplay
    \/ PressNext
    \/ SubmitAnswer
    \/ DictSearch
    \/ PressStar
    \/ ClearVocabulary

Spec == Init /\ [][Next]_vars

NextAll == Next \/ ToggleShuffle

SpecAll == Init /\ [][NextAll]_vars

\* the pass of a tick of the shuffle checkbox in a new session
AfterShuffleTick ==
    Script(SessionDefaults, Widgets("en", "easy", TRUE),
           [kind |-> "shuffle", arg |-> None],
           Env({}, {}, "failed", FetchError, <<>>))

\* the session of a user who ticks the shuffle checkbox first and leaves it
\* ticked: every selection of a video reorders its segments
InitShuffled ==
    /\ session_state = AfterShuffleTick.ss
    /\ difficulty = "easy"
    /\ shuffle_order = TRUE
    /\ screen = AfterShuffleTick.out
    /\ rerun_pending = FALSE
    /\ trigger = "shuffle"
    /\ checked_verdict = NoVerdicts
    /\ dictionary \in SUBSET DictHeadwords

\* ... and who selects videos, leaves them, answers and switches the mode
NextShuffled ==
    \/ Rerun
    \/ ToggleDifficulty
    \/ Search
    \/ BackToResults
    \/ StudyThis
    \/ SubmitAnswer

SpecShuffled == InitShuffled /\ [][NextShuffled]_vars

(***************************************************************************)
(* Sessions on one subtitle line.  The subtitle provider decides what a    *)
(* line reads, so the blank generator and the answer evaluator are checked *)
(* from the states the program is in after a search and the selection of a *)
(* video whose Korean track is one line, for every line of a set.          *)
(***************************************************************************)
\* the lists of at most n words of a pool
WordLists(pool, n) == UNION {[1..k -> pool] : k \in 0..n}

TrackOf(text) == <<[text |-> text, start |-> 0, duration |-> 2]>>

\* the pass of a search that finds videos
AfterSearch ==
    Script(SessionDefaults, Widgets("en", "easy", FALSE),
           [kind |-> "search", arg |-> None],
           Env({}, {}, "results", FetchError, <<>>))

\* the pass of "study this" on the first video, whose track is `track`
AfterStudy(track) ==
    Script(AfterSearch.ss, Widgets("en", "easy", FALSE),
           [kind |-> "study", arg |-> Video1],
           Env({}, {}, "failed", Fetched(track), <<>>))

InitOn(texts) ==
    /\ \E text \in texts : session_state = AfterStudy(TrackOf(text)).ss
    /\ difficulty = "easy"
    /\ shuffle_order = FALSE
    /\ screen = AfterSearch.out
    /\ rerun_pending = TRUE
    /\ trigger = "study"
    /\ checked_verdict = NoVerdicts
    /\ dictionary \in SUBSET DictHeadwords

\* subtitle lines for the blank generator: short and long words, repeated
\* words, a word that reads like the placeholder, single and double gaps,
\* with and without a leading gap
SubtitleWords == {<<"a">>, W_aa, W_bb, Placeholder}

Gaps == {SP, SP \o SP}

Leads == {<<>>, SP}

SubtitleTexts ==
    {lead \o join(gap, ws) :
        lead \in Leads, gap \in Gaps, ws \in WordLists(SubtitleWords, MaxWords)}

InitBlanks == InitOn(SubtitleTexts)

NextBlanks ==
    \/ Rerun
    \/ ToggleDifficulty

SpecBlanks == InitBlanks /\ [][NextBlanks]_vars

\* subtitle lines and typed answers for the answer evaluator: lines of words
\* (one ends in a period), answers of tokens, and free texts of letters,
\* periods and spaces for both
EvalWords == {<<"a", "a", "b">>, <<"c", "c", ".">>}

TypedWords == {<<"a", "a", "b">>, <<"c", "c">>, <<"c">>}

FreeTexts == UNION {[1..k -> {"a", ".", " "}] : k \in 0..MaxLen}

EvalTexts == {join(SP, ws) : ws \in WordLists(EvalWords, MaxEvalWords)} \cup FreeTexts

EvalInputs == {join(SP, ws) : ws \in WordLists(TypedWords, MaxTyped)} \cup FreeTexts

InitEval == InitOn(EvalTexts)

\* one typed answer in a session
SubmitTyped ==
    /\ session_state.history = <<>>
    /\ SubmitFrom(EvalInputs)

NextEval ==
    \/ Rerun
    \/ ToggleDifficulty
    \/ SubmitTyped

SpecEval == InitEval /\ [][NextEval]_vars

(***************************************************************************)
(* What a state shows.                                                     *)
(***************************************************************************)
\* the last pass ran to its end and left a segment page
SegmentShown == ~rerun_pending /\ screen.view = "study"

EasyShown == SegmentShown /\ screen.mode = "easy"

\* the page shows a verdict
Checked == SegmentShown /\ screen.verdict # "none"

ShownText == session_state.transcript_data[screen.idx + 1].text

ShownInput == session_state.check_states[screen.idx].user_input

LastRecord == session_state.history[Len(session_state.history)]

\* the last pass was a submit that ran to its end
Submitted == Checked /\ trigger = "submit" /\ screen.error = "none"

Index == session_state.current_index

(***************************************************************************)
(* Ledger (C1) and re-rendered verdicts (C2).                              *)
(***************************************************************************)
\* C1: a pass that an answer submit triggered appends exactly one record to
\* the history and leaves the records before it as they were; every other
\* pass leaves the history as it was.
C1_LedgerGrowth ==
    [][/\ trigger' = "submit" =>
            /\ Len(session_state'.history) = Len(session_state.history) + 1
            /\ SubSeq(session_state'.history, 1, Len(session_state.history))
                   = session_state.history
       /\ trigger' # "submit" => session_state'.history = session_state.history]_vars

\* a submit pass that stopped at a repeated star-button key: the check is
\* stored, the verdict is on the page, the history is empty
C1_SubmitWithoutRecord ==
    /\ trigger = "submit"
    /\ screen.error = "duplicate_key"
    /\ screen.verdict = "incorrect"
    /\ screen.idx \in DOMAIN session_state.check_states
    /\ session_state.history = <<>>

\* C2: whenever a page shows a verdict for an index, it is the verdict the
\* last submit pass for that index showed.
C2_VerdictStable ==
    (Checked /\ screen.idx \in DOMAIN checked_verdict)
        => screen.verdict = checked_verdict[screen.idx]

\* a pass without a submit shows the opposite of the submitted verdict
C2_VerdictFlipped ==
    /\ Checked
    /\ trigger # "submit"
    /\ screen.idx \in DOMAIN checked_verdict
    /\ checked_verdict[screen.idx] = "correct"
    /\ screen.verdict = "incorrect"
    /\ Len(session_state.history) = 1
    /\ LastRecord.is_correct = "V"

(***************************************************************************)
(* Answer evaluator (C3, C4, C5).                                          *)
(***************************************************************************)
\* the typed answer as the page's evaluation reads it
TypedTokens ==
    LET ws == split(ShownInput)
    IN  [i \in 1..Len(ws) |-> normalize_text(ws[i])]

ExpectedTokens ==
    [i \in 1..Len(screen.blank_answers) |-> normalize_text(screen.blank_answers[i])]

\* C3: in blank mode the verdict is "correct" exactly when the normalized
\* tokens of the typed answer and the normalized blank answers have the same
\* length and agree at every position; so more tokens, fewer tokens or
\* another order are judged incorrect.
C3_BlankVerdict ==
    (Checked /\ screen.mode = "easy") =>
        ((screen.verdict = "correct")
            <=> (/\ Len(TypedTokens) = Len(ExpectedTokens)
                 /\ \A i \in 1..Len(ExpectedTokens) : TypedTokens[i] = ExpectedTokens[i]))

\* every blank answered rightly, one token too many: incorrect
C3_ExtraToken ==
    /\ Checked
    /\ screen.mode = "easy"
    /\ Len(ExpectedTokens) = 2
    /\ Len(TypedTokens) = 3
    /\ \A i \in 1..2 : TypedTokens[i] = ExpectedTokens[i]
    /\ screen.verdict = "incorrect"

\* the characters of a markup on one side of the comparison: the unchanged
\* ones and those tagged `tag`
RECURSIVE Side(_, _)
Side(markup, tag) ==
    IF markup = <<>> THEN <<>>
    ELSE LET e == markup[1]
         IN  (IF e[1] \in {" ", tag} THEN <<e[2]>> ELSE <<>>)
                 \o Side(Tail(markup), tag)

\* C4: in full mode the verdict is "correct" exactly when the typed answer
\* and the subtitle line have the same normalization; an incorrect answer is
\* compared with the line character by character over the two texts as they
\* are (struck characters and unchanged ones spell the answer, added and
\* unchanged ones spell the line); no wrong word is collected, looked up or
\* stored in the attempt's record.
C4_FullVerdict ==
    (Checked /\ screen.mode = "hard") =>
        /\ (screen.verdict = "correct")
              <=> (normalize_text(ShownInput) = normalize_text(ShownText))
        /\ screen.verdict = "incorrect" =>
              /\ Side(screen.diff_html, "-") = ShownInput
              /\ Side(screen.diff_html, "+") = ShownText
        /\ screen.verdict = "correct" => screen.diff_html = <<>>
        /\ screen.wrong_words = <<>>
        /\ screen.looked_up = <<>>
        /\ Submitted =>
              /\ LastRecord.wrong_words = <<"-">>
              /\ LastRecord.blank_words = <<"-">>
              /\ LastRecord.is_correct = (IF screen.verdict = "correct" THEN "V" ELSE "X")
              /\ LastRecord.diff_html = screen.diff_html

\* a submitted answer that differs from the line by a period or an outer
\* space only, judged correct and recorded
C4_PunctuationOnly ==
    /\ Submitted
    /\ screen.mode = "hard"
    /\ ShownInput # ShownText
    /\ RemovePunct(ShownText) # ShownText
    /\ screen.verdict = "correct"
    /\ LastRecord.is_correct = "V"

\* the first n distinct entries of a list, in order of first occurrence
RECURSIVE FirstDistinct(_, _, _)
FirstDistinct(list, n, seen) ==
    IF list = <<>> \/ Len(seen) = n THEN seen
    ELSE FirstDistinct(Tail(list), n,
                       IF InList(Head(list), seen) THEN seen
                       ELSE Append(seen, Head(list)))

\* C5: after a blank-mode submit judged incorrect, the words looked up in
\* the dictionary and the wrong words stored in the attempt's record are
\* both the first 3 distinct collected wrong words, in order of first
\* occurrence.
C5_WrongWordList ==
    (Submitted /\ screen.mode = "easy" /\ screen.verdict = "incorrect") =>
        LET want == FirstDistinct(screen.wrong_words, 3, <<>>)
        IN  /\ screen.looked_up = want
            /\ LastRecord.wrong_words = JoinOrDash(want)

\* three distinct wrong words were collected, two were looked up and the
\* record names one of them twice
C5_Duplicate ==
    /\ Submitted
    /\ screen.mode = "easy"
    /\ Len(FirstDistinct(screen.wrong_words, 3, <<>>)) = 3
    /\ Len(screen.looked_up) = 2
    /\ LastRecord.wrong_words
           = JoinOrDash(<<screen.wrong_words[1], screen.wrong_words[1], screen.wrong_words[3]>>)

(***************************************************************************)
(* Blank generator (C6, C7, C8).                                           *)
(***************************************************************************)
ShownWords == split(ShownText)

\* the tokens of at least 2 characters, each occurrence counted
EligibleCount == Cardinality({i \in 1..Len(ShownWords) : Len(ShownWords[i]) >= 2})

\* the masked text is made of tokens joined by single spaces
MaskedTokens == split(screen.masked_text)

PlaceholderCount ==
    Cardinality({i \in 1..Len(MaskedTokens) : MaskedTokens[i] = Placeholder})

\* the tokens with the placeholders replaced, left to right, by the answers
RECURSIVE Refill(_, _)
Refill(tokens, answers) ==
    IF tokens = <<>> THEN <<>>
    ELSE IF Head(tokens) = Placeholder /\ answers # <<>>
         THEN <<Head(answers)>> \o Refill(Tail(tokens), Tail(answers))
         ELSE <<Head(tokens)>> \o Refill(Tail(tokens), answers)

\* `part` can be read off `whole` from left to right
RECURSIVE InOrder(_, _)
InOrder(part, whole) ==
    IF part = <<>> THEN TRUE
    ELSE IF whole = <<>> THEN FALSE
    ELSE IF Head(part) = Head(whole) THEN InOrder(Tail(part), Tail(whole))
    ELSE InOrder(part, Tail(whole))

\* C6: the blanks of a line are min(2, eligibleCount) answers, whatever the
\* draw, repeated eligible tokens counted one by one.
C6_BlankCount ==
    EasyShown => Len(screen.blank_answers) = min(2, EligibleCount)

\* a line with two eligible tokens and one blank
C6_OneBlankOfTwo ==
    /\ EasyShown
    /\ screen.generated
    /\ EligibleCount = 2
    /\ Len(screen.blank_answers) = 1
    /\ PlaceholderCount = 1

\* C7 as stated: as many placeholders as answers, the answers in the order
\* of the line, and the refilled masked text is the line, character for
\* character.
C7_RoundTripExact ==
    EasyShown =>
        /\ PlaceholderCount = Len(screen.blank_answers)
        /\ InOrder(screen.blank_answers, ShownWords)
        /\ join(SP, Refill(MaskedTokens, screen.blank_answers)) = ShownText

\* C7: for every line none of whose tokens reads like the placeholder and
\* every draw, the masked text holds as many placeholders as there are
\* answers, the answers are in the order of the line, and the refilled masked
\* text is the line's tokens joined by single spaces (the line itself up to
\* its whitespace).
C7_RoundTripTokens ==
    (EasyShown /\ \A i \in 1..Len(ShownWords) : ShownWords[i] # Placeholder) =>
        /\ PlaceholderCount = Len(screen.blank_answers)
        /\ InOrder(screen.blank_answers, ShownWords)
        /\ Refill(MaskedTokens, screen.blank_answers) = ShownWords
        /\ join(SP, Refill(MaskedTokens, screen.blank_answers)) = join(SP, ShownWords)

\* two blanks drawn from a line with a double or leading gap: the refilled
\* text has the line's tokens and not its spacing
C7_SpacingLost ==
    /\ EasyShown
    /\ screen.generated
    /\ \A i \in 1..Len(ShownWords) : ShownWords[i] # Placeholder
    /\ Len(screen.blank_answers) = 2
    /\ Refill(MaskedTokens, screen.blank_answers) = ShownWords
    /\ join(SP, Refill(MaskedTokens, screen.blank_answers)) # ShownText

BlankState(ss) ==
    <<ss.blank_generation_idx, ss.current_blank_answers, ss.current_masked_text>>

\* the step is a pass that ran to its end and rendered a blank-mode page
EasyRender == ~rerun_pending' /\ screen'.view = "study" /\ screen'.mode = "easy"

\* C8 as stated: the blank state changes only in a blank-mode render of an
\* index it was not generated for, and whenever the index changes the blank
\* state is no longer the one of the current index.
C8_InvalidatedOnMove ==
    [][/\ BlankState(session_state') # BlankState(session_state) =>
            (EasyRender /\ session_state.blank_generation_idx # screen'.idx)
       /\ session_state'.current_index # session_state.current_index =>
            session_state'.blank_generation_idx # session_state'.current_index]_vars

\* C8: the blank state is a cache with the index as its key.  A blank-mode
\* render of an index other than the cached one generates blanks for the
\* line of that index and caches them under it; a blank-mode render of the
\* cached index shows the cached blanks as they are; no other pass (submit,
\* replay, prev, next, dictionary, star, full-mode render) changes the cache.
\* So between two blank-mode renders of an index the blanks change only if
\* another index was rendered in blank mode in between.
C8_BlankCache ==
    [][IF EasyRender /\ session_state.blank_generation_idx # screen'.idx
       THEN /\ screen'.generated
            /\ session_state'.blank_generation_idx = screen'.idx
            /\ \E P \in Samples(split(session_state'.transcript_data[screen'.idx + 1].text)) :
                   LET g == GenerateBlanks(session_state'.transcript_data[screen'.idx + 1].text, P)
                   IN  /\ session_state'.current_blank_answers = g.answers
                       /\ session_state'.current_masked_text = g.masked_text
            /\ screen'.blank_answers = session_state'.current_blank_answers
            /\ screen'.masked_text = session_state'.current_masked_text
       ELSE /\ BlankState(session_state') = BlankState(session_state)
            /\ EasyRender =>
                   /\ ~screen'.generated
                   /\ screen'.blank_answers = session_state.current_blank_answers
                   /\ screen'.masked_text = session_state.current_masked_text]_vars

\* the first line is back on a blank-mode page with the blanks it had, the
\* second line having been answered in full mode in between
C8_ReusedAfterDetour ==
    /\ EasyShown
    /\ ~screen.generated
    /\ screen.idx = 0
    /\ trigger = "difficulty"
    /\ session_state.blank_generation_idx = 0
    /\ DOMAIN session_state.check_states = {1}
    /\ Len(session_state.history) = 1
    /\ LastRecord.original_text = Text2
    /\ LastRecord.blank_words = <<"-">>

(***************************************************************************)
(* Segment navigator (C9, C10).                                            *)
(***************************************************************************)
\* C9: pressing next on the page of segment i, 0 <= i < N, moves the index
\* to i + 1 (to the completed state N from the last segment).
C9_NextAdvances ==
    [][(trigger' = "next" /\ OnSegment) =>
            session_state'.current_index = session_state.current_index + 1]_vars

\* next was pressed on the last segment and the page shows it again
C9_NextAtLastSegment ==
    /\ SegmentShown
    /\ trigger = "next"
    /\ screen.idx = Len(session_state.transcript_data) - 1
    /\ Index = screen.idx

\* the index of a selected video is a segment's: the completed state and its
\* restart button are never on a page
C9_NeverCompleted ==
    /\ session_state.selected_video # NoVideo =>
           Index \in 0..(Len(session_state.transcript_data) - 1)
    /\ screen.view # "completed"
    /\ ~screen.restart

\* C10 as stated: a prev or next that changes the index, and every replay,
\* requests autoplay and increments the replay counter; the counter never
\* decreases.
C10_MoveCounts ==
    [][/\ ((trigger' \in {"prev", "next", "restart"}
              /\ session_state'.current_index # session_state.current_index)
           \/ trigger' = "replay") =>
              /\ session_state'.should_autoplay
              /\ session_state'.replay_count = session_state.replay_count + 1
       /\ session_state'.replay_count >= session_state.replay_count]_vars

\* C10: replay leaves the index, requests autoplay and increments the
\* replay counter; prev on a segment after the first and next on a segment
\* before the last move the index by one and request autoplay without
\* touching the counter; no other pass changes the counter, which never
\* decreases; the render after a request plays the video and clears the
\* request.
C10_AutoplayAndCounter ==
    [][/\ trigger' = "replay" =>
              /\ session_state'.should_autoplay
              /\ session_state'.replay_count = session_state.replay_count + 1
              /\ session_state'.current_index = session_state.current_index
       /\ (trigger' = "prev" /\ OnSegment /\ session_state.current_index > 0) =>
              /\ session_state'.current_index = session_state.current_index - 1
              /\ session_state'.should_autoplay
       /\ (trigger' = "next" /\ OnSegment
              /\ session_state.current_index < Len(session_state.transcript_data) - 1) =>
              /\ session_state'.current_index = session_state.current_index + 1
              /\ session_state'.should_autoplay
       /\ trigger' # "replay" =>
              session_state'.replay_count = session_state.replay_count
       /\ session_state'.replay_count >= session_state.replay_count
       /\ (session_state.should_autoplay /\ ~rerun_pending' /\ screen'.view = "study") =>
              /\ screen'.autoplay
              /\ ~session_state'.should_autoplay]_vars

\* next has moved to the second segment and asked for autoplay, after one
\* replay: the counter still reads one
C10_MovedWithoutCount ==
    /\ trigger = "next"
    /\ rerun_pending
    /\ Index = 1
    /\ session_state.should_autoplay
    /\ session_state.replay_count = 1

(***************************************************************************)
(* Text normalizer (C11).                                                  *)
(***************************************************************************)
\* the texts the evaluation of the page normalizes: the typed answer and
\* the line (full mode), the tokens of the typed answer and the blank
\* answers (blank mode)
NormalizedTexts ==
    {ShownInput, ShownText}
        \cup {split(strip(ShownInput))[i] : i \in 1..Len(split(strip(ShownInput)))}
        \cup {screen.blank_answers[i] : i \in 1..Len(screen.blank_answers)}

\* no punctuation character, no whitespace at either end
IsNormal(n) ==
    /\ \A i \in 1..Len(n) : n[i] \notin Punct
    /\ n # <<>> => (n[1] \notin Whitespace /\ n[Len(n)] \notin Whitespace)

\* C11: normalizing a text that is already normalized changes nothing, and a
\* normalized text holds no punctuation character of the fixed set and no
\* whitespace at its start or end; every text has a normalization.
C11_NormalizeIdempotent ==
    Checked =>
        \A s \in NormalizedTexts :
            /\ normalize_text(normalize_text(s)) = normalize_text(s)
            /\ IsNormal(normalize_text(s))
            /\ normalize_text(s) \in Seq({"a", "b", "c", " ", "_"})

\* a typed answer with no space at its ends in which the removal of the
\* punctuation lays a space bare, evaluated in full mode
C11_SpaceBehindPunctuation ==
    /\ Checked
    /\ screen.mode = "hard"
    /\ strip(ShownInput) = ShownInput
    /\ strip(RemovePunct(ShownInput)) # RemovePunct(ShownInput)
    /\ normalize_text(ShownInput) # <<>>

(***************************************************************************)
(* Subtitle retrieval failures (C12).                                      *)
(***************************************************************************)
\* the last pass was a "study this" press whose subtitle retrieval failed
FetchFailed ==
    /\ trigger = "study"
    /\ ~rerun_pending
    /\ screen.fetched \in {"no_ko", "error"}

\* C12 as stated: when the subtitle retrieval of a "study this" press fails,
\* the page tells a video without a Korean track from any other failure (the
\* message for "no Korean subtitles" is shown for the former only), and the
\* selected video, the segments and the index stay as they were, with the
\* result list on the page again.
C12_DistinctFailure ==
    [][FetchFailed' =>
          /\ screen'.fetched = "no_ko" => screen'.error = "no_korean_subtitles"
          /\ screen'.fetched = "error" => screen'.error # "no_korean_subtitles"
          /\ session_state'.selected_video = session_state.selected_video
          /\ session_state'.transcript_data = session_state.transcript_data
          /\ session_state'.current_index = session_state.current_index
          /\ screen'.view = "list"]_vars

\* the provider failed on a video that has a Korean track, and the page
\* says that the video has no Korean subtitles
C12_ErrorShownAsNoKorean ==
    /\ FetchFailed
    /\ screen.fetched = "error"
    /\ screen.error = "no_korean_subtitles"
    /\ \E n \in 1..Len(session_state.search_results) :
           KoreanTrack(session_state.search_results[n].id) # <<>>

\* whatever the failure, the page shows the same message, the session state
\* is the one before the press and the result list is on the page
C12_FailureLeavesSession ==
    [][FetchFailed' =>
          /\ screen'.error = "no_korean_subtitles"
          /\ session_state' = session_state
          /\ session_state'.selected_video = NoVideo
          /\ screen'.view = "list"]_vars

(***************************************************************************)
(* Vocabulary (C13).                                                       *)
(***************************************************************************)
Vocabulary == session_state.vocabulary

\* the vocabulary after a step begins with the vocabulary before it
VocabularyKept == SubSeq(Vocabulary', 1, Len(Vocabulary)) = Vocabulary

\* C13 as stated: the pass that the press of a star button on the page
\* triggers appends exactly one entry, the one of the pressed result, and
\* leaves the entries before it as they were; a pass that is neither a star
\* press nor the bulk clear leaves the vocabulary as it was.
C13_StarSaves ==
    [][/\ trigger' = "star" =>
            /\ Len(Vocabulary') = Len(Vocabulary) + 1
            /\ VocabularyKept
            /\ \E n \in 1..Len(screen.stars) :
                   screen.stars[n].entry = Vocabulary'[Len(Vocabulary')]
       /\ trigger' \notin {"star", "clear"} => Vocabulary' = Vocabulary]_vars

\* the star of a manual dictionary search was pressed: the pass ran to its
\* end with no dictionary result on the page and nothing was saved
C13_StarWithoutEntry ==
    /\ trigger = "star"
    /\ ~rerun_pending
    /\ screen.view = "study"
    /\ screen.error = "none"
    /\ screen.stars = <<>>
    /\ Vocabulary = <<>>

\* what holds of the vocabulary: only a star press adds to it, at most one
\* entry, an entry of a result that was on the page; entries are never
\* changed; only the bulk clear removes them, all at once
C13_VocabularyFrame ==
    [][/\ trigger' = "star" =>
            /\ VocabularyKept
            /\ Len(Vocabulary') <= Len(Vocabulary) + 1
            /\ Len(Vocabulary') = Len(Vocabulary) + 1 =>
                   \E n \in 1..Len(screen.stars) :
                       screen.stars[n].entry.word = Vocabulary'[Len(Vocabulary')].word
       /\ trigger' = "clear" => Vocabulary' = <<>>
       /\ trigger' \notin {"star", "clear"} => Vocabulary' = Vocabulary]_vars

(***************************************************************************)
(* Blank state and the segment on the page (C14).                          *)
(***************************************************************************)
\* C14: on every blank-mode page the blank answers are tokens of the line of
\* the segment on the page, in its order, and the masked text is that line
\* with those tokens replaced by the placeholder.
C14_BlanksOfShownSegment ==
    EasyShown =>
        /\ InOrder(screen.blank_answers, ShownWords)
        /\ Refill(MaskedTokens, screen.blank_answers) = ShownWords

\* the video was selected again and its segments reordered: the page of
\* index 0 shows another line with the blanks generated for the line that
\* was at index 0 before
C14_BlanksOfOtherSegment ==
    /\ EasyShown
    /\ screen.idx = 0
    /\ ~screen.generated
    /\ session_state.blank_generation_idx = 0
    /\ ShownText = Text2
    /\ Refill(MaskedTokens, screen.blank_answers) = split(Text1)

(***************************************************************************)
(* Stored checks and the selection of a video (C15).                       *)
(***************************************************************************)
\* the last pass selected a video (and called st.rerun())
JustSelected == trigger = "study" /\ rerun_pending

\* C15: the pass that selects a video leaves no index stored as checked, and
\* the page rendered right after the selection, before any submit, shows no
\* verdict.
C15_CheckedOnlyAfterSubmit ==
    [][/\ JustSelected' => session_state'.check_states = NoChecks
       /\ (JustSelected /\ ~rerun_pending' /\ screen'.view = "study") =>
              screen'.verdict = "none"]_vars

\* a video has just been selected and the check stored for index 0 under the
\* previous selection is still in the session
C15_CheckSurvivesSelection ==
    /\ JustSelected
    /\ session_state.current_index = 0
    /\ 0 \in DOMAIN session_state.check_states
    /\ session_state.check_states[0].checked
    /\ Len(session_state.history) = 1

\* with shuffle: the answer recorded for one line is on the page of another
\* line, evaluated against it
C15_InputAgainstOtherLine ==
    /\ Checked
    /\ trigger = "none"
    /\ Len(session_state.history) = 1
    /\ LastRecord.user_input = ShownInput
    /\ LastRecord.original_text # ShownText

(***************************************************************************)
(* Feedback of an incorrect blank-mode answer (C16).                       *)
(***************************************************************************)
\* the comparison marks a character as struck or added
Annotated(markup) == \E i \in 1..Len(markup) : markup[i][1] \in {"-", "+"}

\* C16 as stated: a blank-mode page with the verdict "incorrect" collects at
\* least one wrong word and its comparison marks at least one character as
\* struck or added.
C16_IncorrectNamesSlot ==
    (Checked /\ screen.mode = "easy" /\ screen.verdict = "incorrect") =>
        /\ screen.wrong_words # <<>>
        /\ Annotated(screen.diff_html)

\* more tokens than blanks, the first ones right: incorrect, every blank shown
\* as unchanged, no wrong word
C16_IncorrectWithoutSlot ==
    /\ Checked
    /\ screen.mode = "easy"
    /\ screen.verdict = "incorrect"
    /\ Len(ExpectedTokens) >= 1
    /\ Len(TypedTokens) > Len(ExpectedTokens)
    /\ screen.wrong_words = <<>>
    /\ screen.diff_html # <<>>
    /\ ~Annotated(screen.diff_html)

\* a line without a word to blank and an answer that is not empty:
\* incorrect, with an empty comparison and no wrong word
C16_IncorrectWithoutBlanks ==
    /\ Checked
    /\ screen.mode = "easy"
    /\ screen.verdict = "incorrect"
    /\ screen.blank_answers = <<>>
    /\ screen.wrong_words = <<>>
    /\ screen.diff_html = <<>>

\* what holds: an incorrect answer that differs from a blank at the blank's
\* position (a token that is not typed reads as the empty text) collects a
\* wrong word and marks a character
C16_MismatchNamesSlot ==
    (/\ Checked
     /\ screen.mode = "easy"
     /\ screen.verdict = "incorrect"
     /\ \E i \in 1..Len(ExpectedTokens) :
            (IF i <= Len(TypedTokens) THEN TypedTokens[i] ELSE <<>>)
                # ExpectedTokens[i]) =>
        /\ screen.wrong_words # <<>>
        /\ Annotated(screen.diff_html)

=============================================================================
